---- MODULE Spec2Model ----
(***************************************************************************)
(* Client lookup bot (src/src/__main__.py): the Directory (CLIENTS,        *)
(* FAVOURITES), search_clients, the search handler, the buttons of the     *)
(* forms, the decoding of submitted forms and the two form-reply handlers  *)
(* with their backend calls.                                               *)
(*                                                                         *)
(* Python strings are sequences of one-character strings, so that lower(), *)
(* strip(), split(), startswith(), slicing and the "in" operator are       *)
(* computed rather than assumed.                                           *)
(***************************************************************************)
EXTENDS Integers, Sequences, FiniteSets, TLC

VARIABLES
    running,          \* run() has loaded the Directory and started the datafeed loop
    CLIENTS,          \* global list of client records
    FAVOURITES,       \* global list of favourite client records
    load_returned,    \* what load_clients_from_csv returned to a caller that keeps
                      \* the value ("True", "False"), as success in /reload
    query,            \* argument of the search_clients call in progress
    matches,          \* list returned by that call
    handler,          \* handler that runs the current interaction
    text,             \* context.text_content of the message the search handler runs on
    pc,               \* position of that handler
    form_id,          \* context.form_id of the form reply the handler runs on
    form_values,      \* context.form_values, an ordered map: <<key, value>> pairs
    selected_id,      \* selected_client_id / trade_number extracted by the handler
    selected_client,  \* record found in CLIENTS, or None
    events,           \* backend calls, returns, replies and exceptions, in order
    clock,            \* int(time.time()), in seconds since the bot started
    rendered,         \* form ids of the lists rendered so far, in order
    processed_messages, \* AttachmentDownloadListener.processed_messages
    deliveries,       \* the on_message_sent coroutines started, in order of delivery
    downloads,        \* per message id: attachments downloaded
    summaries         \* per message id: summary replies sent

vars == <<running, CLIENTS, FAVOURITES, load_returned, query, matches, handler, text, pc,
          form_id, form_values, selected_id, selected_client, events, clock, rendered,
          processed_messages, deliveries, downloads, summaries>>

dirVars == <<CLIENTS, FAVOURITES, load_returned>>
searchVars == <<query, matches>>
handlerVars == <<handler, text, pc, form_id, form_values, selected_id, selected_client,
                 events>>
renderVars == <<clock, rendered>>
attachVars == <<processed_messages, deliveries, downloads, summaries>>

----------------------------------------------------------------------------
(* Bounds of the model *)

MaxRows == 3        \* rows of a CSV file
MaxQueryLen == 3    \* characters of a search query
MaxFields == 2      \* fields of a submitted form
MaxListRows == 15   \* rows of a generated CSV file of favourites
MaxIdLen == 2       \* characters of an id put on a button
MaxClock == 2       \* seconds of the clock the rendering of lists is followed for
MaxRendered == 3    \* lists rendered in one run
MaxDeliveries == 3  \* messages the datafeed delivers to the attachment listener

----------------------------------------------------------------------------
(* Python values *)

\* Python's None; a tuple, so that it compares with strings without error
None == <<"<None>">>

\* None where a client record is expected
NoClient == [client_id |-> None, client_name |-> None, is_favourite |-> FALSE]

\* bool(x) of a string: the empty string and None are falsy
Truthy(s) == s # None /\ s # <<>>

----------------------------------------------------------------------------
(* str methods *)

\* the printable ASCII characters, in code point order from 32 (space) to 126;
\* <dq>, <bs> and <bq> stand for the double quote, the backslash and the backquote
Ascii ==
    <<
       " ", "!", "<dq>", "#", "$", "%", "&", "'", "(", ")", "*", "+",
       ",", "-", ".", "/", "0", "1", "2", "3", "4", "5", "6", "7",
       "8", "9", ":", ";", "<", "=", ">", "?", "@", "A", "B", "C",
       "D", "E", "F", "G", "H", "I", "J", "K", "L", "M", "N", "O",
       "P", "Q", "R", "S", "T", "U", "V", "W", "X", "Y", "Z", "[",
       "<bs>", "]", "^", "_", "<bq>", "a", "b", "c", "d", "e", "f", "g",
       "h", "i", "j", "k", "l", "m", "n", "o", "p", "q", "r", "s",
       "t", "u", "v", "w", "x", "y", "z", "{", "|", "}", "~" >>

\* ord(c)
CodePoint == [c \in {Ascii[i] : i \in 1..Len(Ascii)} |->
                 31 + (CHOOSE i \in 1..Len(Ascii) : Ascii[i] = c)]

\* chr(n)
Chr(n) == Ascii[n - 31]

\* str.lower() of one character: A-Z move up by 32, all others stay
LowerChar(c) ==
    IF CodePoint[c] >= 65 /\ CodePoint[c] <= 90 THEN Chr(CodePoint[c] + 32) ELSE c

\* str.lower()
lower(s) == [i \in 1..Len(s) |-> LowerChar(s[i])]

\* str.isspace() of one character
IsSpace(c) == c = " "

RECURSIVE lstrip(_)
lstrip(s) == IF s # <<>> /\ IsSpace(Head(s)) THEN lstrip(Tail(s)) ELSE s

RECURSIVE rstrip(_)
rstrip(s) ==
    IF s # <<>> /\ IsSpace(s[Len(s)]) THEN rstrip(SubSeq(s, 1, Len(s) - 1)) ELSE s

\* str.strip()
strip(s) == rstrip(lstrip(s))

\* length of the leading run of non-space characters
RECURSIVE WordLen(_)
WordLen(s) == IF s = <<>> \/ IsSpace(Head(s)) THEN 0 ELSE 1 + WordLen(Tail(s))

\* str.split() without arguments: the maximal runs of non-space characters
RECURSIVE split(_)
split(s) ==
    LET t == lstrip(s)
    IN  IF t = <<>> THEN <<>>
        ELSE <<SubSeq(t, 1, WordLen(t))>> \o split(SubSeq(t, WordLen(t) + 1, Len(t)))

\* str.startswith(p)
startswith(s, p) == Len(s) >= Len(p) /\ SubSeq(s, 1, Len(p)) = p

\* s[n:] taken one character early
SliceFrom_OneEarly(s, n) == SubSeq(s, n, Len(s))

\* s[n:]
SliceFrom(s, n) == SubSeq(s, n + 1, Len(s))

\* the "in" operator on strings: t in s, scanning the start positions left to right
RECURSIVE FindFrom(_, _, _)
FindFrom(s, t, i) ==
    IF i + Len(t) > Len(s) THEN FALSE
    ELSE IF SubSeq(s, i + 1, i + Len(t)) = t THEN TRUE
    ELSE FindFrom(s, t, i + 1)

StrIn(t, s) == FindFrom(s, t, 0)

\* str.find(t): the first position, from 0, at which t occurs in s, or -1
RECURSIVE FindIndexFrom(_, _, _)
FindIndexFrom(s, t, i) ==
    IF i + Len(t) > Len(s) THEN -1
    ELSE IF SubSeq(s, i + 1, i + Len(t)) = t THEN i
    ELSE FindIndexFrom(s, t, i + 1)

find(s, t) == FindIndexFrom(s, t, 0)

\* s.split(sep)[1] for an s that contains sep: what lies between the first
\* occurrence of sep and the next one, or the end
SplitSecond(s, sep) ==
    LET rest == SliceFrom(s, find(s, sep) + Len(sep))
        k == find(rest, sep)
    IN  IF k < 0 THEN rest ELSE SubSeq(rest, 1, k)

\* str.strip(c) for one character c
RECURSIVE StripChar(_, _)
StripChar(s, c) ==
    IF s # <<>> /\ Head(s) = c THEN StripChar(Tail(s), c)
    ELSE IF s # <<>> /\ s[Len(s)] = c THEN StripChar(SubSeq(s, 1, Len(s) - 1), c)
    ELSE s

\* s < t on strings: lexicographic by code point
RECURSIVE StrLess(_, _)
StrLess(s, t) ==
    IF t = <<>> THEN FALSE
    ELSE IF s = <<>> THEN TRUE
    ELSE IF CodePoint[Head(s)] # CodePoint[Head(t)]
         THEN CodePoint[Head(s)] < CodePoint[Head(t)]
    ELSE StrLess(Tail(s), Tail(t))

----------------------------------------------------------------------------
(* list.sort(key=...): stable, ascending *)

\* key=lambda x: x['client_name']  (FAVOURITES.sort)
NameLess(a, b) == StrLess(a.client_name, b.client_name)

\* SearchKeyLess without the favourite flag: key=lambda x: x['client_name']
SearchKeyLess_NameOnly(a, b) == StrLess(a.client_name, b.client_name)

\* key=lambda x: (not x['is_favourite'], x['client_name'])  (matches.sort)
SearchKeyLess(a, b) ==
    \/ a.is_favourite /\ ~b.is_favourite
    \/ a.is_favourite = b.is_favourite /\ StrLess(a.client_name, b.client_name)

KeyLess(key, a, b) == IF key = "name" THEN NameLess(a, b) ELSE SearchKeyLess(a, b)

\* insert x behind every element of the sorted list whose key is not greater
RECURSIVE InsertByKey(_, _, _)
InsertByKey(x, sorted, key) ==
    IF sorted = <<>> THEN <<x>>
    ELSE IF KeyLess(key, x, Head(sorted)) THEN <<x>> \o sorted
    ELSE <<Head(sorted)>> \o InsertByKey(x, Tail(sorted), key)

RECURSIVE SortByKey(_, _)
SortByKey(list, key) ==
    IF list = <<>> THEN <<>>
    ELSE InsertByKey(list[Len(list)],
                     SortByKey(SubSeq(list, 1, Len(list) - 1), key), key)

----------------------------------------------------------------------------
(* The Directory: load_clients_from_csv *)

FavouritesLimit == 10

Str_true == <<"t", "r", "u", "e">>

\* one row of the reader: a column the line lacks reads as None
Row(id, name, fav) == [client_id |-> id, client_name |-> name, is_favourite |-> fav]

RowPool ==
    { Row(<<"1", "1">>, <<" ", "A", "n", "a">>, <<"T", "R", "U", "E">>),
      Row(<<"A", "1">>, <<"B", "o">>, <<"F", "a", "l", "s", "e">>),
      Row(<<"2", " ">>, <<"a", "a">>, <<"t", "r", "u", "e", " ">>),
      Row(<<"3">>, <<"C", "y", " ", "a">>, <<"y", "e", "s">>),
      Row(<<"9">>, None, None) }

\* clients.csv: absent, or its rows
MissingFile == [exists |-> FALSE, rows |-> <<>>]

CsvFile(rows) == [exists |-> TRUE, rows |-> rows]

\* the file contents the model loads: rows of the pool, none twice
CsvFiles ==
    { CsvFile(rows) : rows \in
        { r \in UNION { [1..n -> RowPool] : n \in 0..MaxRows } :
            \A i, j \in 1..Len(r) : i # j => r[i] # r[j] } }

\* row i of a generated file: ids "01", "02", ..., one-letter names in an
\* order that is not the alphabet's, every plainEvery-th row not a favourite
ListRow(i, plainEvery) ==
    Row(<<Chr(48 + (i \div 10)), Chr(48 + (i % 10))>>,
        <<Chr(65 + ((i * 7) % 26))>>,
        IF plainEvery > 0 /\ i % plainEvery = 0
        THEN <<"f", "a", "l", "s", "e">> ELSE Str_true)

\* generated files: n rows, then possibly a line that lacks its last columns
ListCsvFiles ==
    { CsvFile([i \in 1..n |-> ListRow(i, plainEvery)] \o tail) :
        n \in 0..MaxListRows, plainEvery \in {0, 2, 3},
        tail \in {<<>>, <<Row(<<"9">>, None, None)>>} }

\* lines 39-43; a None column raises AttributeError on .strip()
RowWellFormed(row) ==
    row.client_id # None /\ row.client_name # None /\ row.is_favourite # None

client_of(row) ==
    [client_id |-> strip(row.client_id),
     client_name |-> strip(row.client_name),
     is_favourite |-> (lower(strip(row.is_favourite)) = Str_true)]

\* the rows read before the first row that raises
RECURSIVE RowsRead(_)
RowsRead(rows) ==
    IF rows = <<>> \/ ~RowWellFormed(Head(rows)) THEN <<>>
    ELSE <<Head(rows)>> \o RowsRead(Tail(rows))

\* load_clients_from_csv without line 36: FAVOURITES is not emptied before the rows
\* are read
load_clients_from_csv_FavouritesKept(csv, oldClients, oldFavourites) ==
    IF ~csv.exists
    THEN [ok |-> FALSE, clients |-> oldClients, favourites |-> oldFavourites]
    ELSE LET read == RowsRead(csv.rows)
             clients == [i \in 1..Len(read) |-> client_of(read[i])]
             favs == oldFavourites \o SelectSeq(clients, LAMBDA c : c.is_favourite)
             sorted == SortByKey(favs, "name")
         IN  IF Len(read) < Len(csv.rows)
             THEN [ok |-> FALSE, clients |-> clients, favourites |-> favs]
             ELSE [ok |-> TRUE, clients |-> clients,
                   favourites |-> SubSeq(sorted, 1,
                       IF Len(sorted) < FavouritesLimit THEN Len(sorted)
                       ELSE FavouritesLimit)]

\* [ok, clients, favourites]: the return value and the globals after the call
load_clients_from_csv(csv, oldClients, oldFavourites) ==
    IF ~csv.exists
    THEN [ok |-> FALSE, clients |-> oldClients, favourites |-> oldFavourites]
    ELSE LET read == RowsRead(csv.rows)
             clients == [i \in 1..Len(read) |-> client_of(read[i])]
             favs == SelectSeq(clients, LAMBDA c : c.is_favourite)
             sorted == SortByKey(favs, "name")
         IN  IF Len(read) < Len(csv.rows)
             THEN [ok |-> FALSE, clients |-> clients, favourites |-> favs]
             ELSE [ok |-> TRUE, clients |-> clients,
                   favourites |-> SubSeq(sorted, 1,
                       IF Len(sorted) < FavouritesLimit THEN Len(sorted)
                       ELSE FavouritesLimit)]

----------------------------------------------------------------------------
(* search_clients *)

\* TermsMatch with "or" for "and": a term must be in the name and in the id
RECURSIVE TermsMatch_BothFields(_, _, _)
TermsMatch_BothFields(terms, name_lower, id_lower) ==
    IF terms = <<>> THEN TRUE
    ELSE IF ~StrIn(Head(terms), name_lower) \/ ~StrIn(Head(terms), id_lower) THEN FALSE
    ELSE TermsMatch_BothFields(Tail(terms), name_lower, id_lower)

\* the loop over query_terms, left to right, ending at the first miss
RECURSIVE TermsMatch(_, _, _)
TermsMatch(terms, name_lower, id_lower) ==
    IF terms = <<>> THEN TRUE
    ELSE IF ~StrIn(Head(terms), name_lower) /\ ~StrIn(Head(terms), id_lower) THEN FALSE
    ELSE TermsMatch(Tail(terms), name_lower, id_lower)

search_clients(q, clients) ==
    IF ~Truthy(q) THEN <<>>
    ELSE LET terms == split(strip(lower(q)))
             found == SelectSeq(clients,
                          LAMBDA c : TermsMatch(terms, lower(c.client_name),
                                                lower(c.client_id)))
         IN  SortByKey(found, "search")

----------------------------------------------------------------------------
(* Backend responses and the three capability calls *)

\* a JSON body: an object with its keys, an array with its length, or text that is
\* not JSON; JsonNone is Python's None where a parsed body is expected
Json(kind, keys, len) == [json |-> kind, keys |-> keys, len |-> len]
JsonNone == Json("none", {}, 0)
JsonObject(keys) == Json("object", keys, 0)
JsonArray(n) == Json("array", {}, n)
JsonInvalid == Json("invalid", {}, 0)

Bodies ==
    { JsonObject({"status_line", "credit_line"}), JsonObject({"detail"}),
      JsonObject({}), JsonArray(2), JsonArray(0), JsonInvalid }

\* disposition: the Content-Disposition header, None when the response has none
Http(status, body) ==
    [kind |-> "http", status |-> status, body |-> body, disposition |-> None]
ConnectorError ==
    [kind |-> "connector_error", status |-> 0, body |-> JsonNone, disposition |-> None]
Timeout == [kind |-> "timeout", status |-> 0, body |-> JsonNone, disposition |-> None]
NoResponse == [kind |-> "none", status |-> 0, body |-> JsonNone, disposition |-> None]

Responses ==
    { Http(200, b) : b \in Bodies }
        \cup { Http(404, JsonNone), Http(500, JsonNone), ConnectorError, Timeout }

\* bool(x) of a parsed body
JsonTruthy(v) ==
    \/ v.json = "object" /\ v.keys # {}
    \/ v.json = "array" /\ v.len > 0

\* the value the call returns; an exception inside the try block returns None
get_client_trades(resp) ==
    IF resp.kind = "connector_error" THEN JsonNone
    ELSE IF resp.kind = "timeout" THEN JsonNone
    ELSE IF resp.status = 200
         THEN IF resp.body.json = "invalid" THEN JsonNone   \* response.json() raises
              ELSE resp.body                                \* len(trades) succeeds
    ELSE IF resp.status = 404 THEN JsonArray(0)
    ELSE JsonNone

get_client_status(resp) ==
    IF resp.kind = "connector_error" THEN JsonNone
    ELSE IF resp.kind = "timeout" THEN JsonNone
    ELSE IF resp.status = 200
         THEN IF resp.body.json = "invalid" THEN JsonNone   \* response.json() raises
              ELSE IF resp.body.json # "object" THEN JsonNone  \* status.get raises
              ELSE resp.body
    ELSE IF resp.status = 404 THEN JsonNone
    ELSE JsonNone

get_client_credit_lines(resp) ==
    IF resp.kind = "connector_error" THEN JsonNone
    ELSE IF resp.kind = "timeout" THEN JsonNone
    ELSE IF resp.status = 200
         THEN IF resp.body.json = "invalid" THEN JsonNone   \* response.json() raises
              ELSE IF resp.body.json # "object" THEN JsonNone  \* credit.get raises
              ELSE resp.body
    ELSE IF resp.status = 404 THEN JsonNone
    ELSE JsonNone

\* the markup create_trades_table returns, by its kind; "raise" when trade.get
\* fails because iterating the parsed body does not yield objects
create_trades_table(trades) ==
    IF ~JsonTruthy(trades) THEN "no_trades"
    ELSE IF trades.json = "array" THEN "trades_table"
    ELSE "raise"

----------------------------------------------------------------------------
(* Decoding a submitted form *)

Str_action == <<"a", "c", "t", "i", "o", "n">>
Prefix_client == <<"c", "l", "i", "e", "n", "t", "_">>
Prefix_fav == <<"f", "a", "v", "_">>
Prefix_trade_doc == <<"t", "r", "a", "d", "e", "_", "d", "o", "c", "_">>

\* ClientSelectionScan without the breaks: the last recognised field wins
RECURSIVE ClientSelectionScan_NoBreak(_)
ClientSelectionScan_NoBreak(fields) ==
    IF fields = <<>> THEN None
    ELSE LET key == fields[Len(fields)][1]
             value == fields[Len(fields)][2]
             front == SubSeq(fields, 1, Len(fields) - 1)
         IN  IF key = Str_action /\ Truthy(value)
             THEN IF startswith(value, Prefix_client) THEN SliceFrom(value, 7)
                  ELSE IF startswith(value, Prefix_fav) THEN SliceFrom(value, 4)
                  ELSE ClientSelectionScan_NoBreak(front)
             ELSE IF startswith(key, Prefix_client) \/ startswith(key, Prefix_fav)
             THEN IF startswith(key, Prefix_client) THEN SliceFrom(key, 7)
                  ELSE SliceFrom(key, 4)
             ELSE ClientSelectionScan_NoBreak(front)

\* ClientSelectionFormActivity.on_activity, lines 503-523: selected_client_id
RECURSIVE ClientSelectionScan(_)
ClientSelectionScan(fields) ==
    IF fields = <<>> THEN None
    ELSE LET key == Head(fields)[1]
             value == Head(fields)[2]
         IN  IF key = Str_action /\ Truthy(value)
             THEN IF startswith(value, Prefix_client) THEN SliceFrom(value, 7)
                  ELSE IF startswith(value, Prefix_fav) THEN SliceFrom(value, 4)
                  ELSE None
             ELSE IF startswith(key, Prefix_client) \/ startswith(key, Prefix_fav)
             THEN IF startswith(key, Prefix_client) THEN SliceFrom(key, 7)
                  ELSE SliceFrom(key, 4)
             ELSE ClientSelectionScan(Tail(fields))

\* TradeDocumentScan taking an action value it does not recognise as the number
RECURSIVE TradeDocumentScan_AnyAction(_)
TradeDocumentScan_AnyAction(fields) ==
    IF fields = <<>> THEN None
    ELSE LET key == Head(fields)[1]
             value == Head(fields)[2]
         IN  IF key = Str_action /\ Truthy(value)
             THEN IF startswith(value, Prefix_trade_doc) THEN SliceFrom(value, 10)
                  ELSE value
             ELSE IF startswith(key, Prefix_trade_doc) THEN SliceFrom(key, 10)
             ELSE TradeDocumentScan_AnyAction(Tail(fields))

\* TradeDocumentActivity.on_activity, lines 231-241: trade_number
RECURSIVE TradeDocumentScan(_)
TradeDocumentScan(fields) ==
    IF fields = <<>> THEN None
    ELSE LET key == Head(fields)[1]
             value == Head(fields)[2]
         IN  IF key = Str_action /\ Truthy(value) /\ startswith(value, Prefix_trade_doc)
             THEN SliceFrom(value, 10)
             ELSE IF startswith(key, Prefix_trade_doc) THEN SliceFrom(key, 10)
             ELSE TradeDocumentScan(Tail(fields))

\* FindClient that settles for the first record when none has the id
FindClient_OrFirst(clients, id) ==
    IF clients = <<>> THEN NoClient
    ELSE IF \E i \in DOMAIN clients : clients[i].client_id = id
         THEN clients[CHOOSE i \in DOMAIN clients :
                        /\ clients[i].client_id = id
                        /\ \A j \in 1..(i - 1) : clients[j].client_id # id]
         ELSE Head(clients)

\* lines 532-536: the first record of CLIENTS with that id, or None
RECURSIVE FindClient(_, _)
FindClient(clients, id) ==
    IF clients = <<>> THEN NoClient
    ELSE IF Head(clients).client_id = id THEN Head(clients)
    ELSE FindClient(Tail(clients), id)

----------------------------------------------------------------------------
(* Submitted forms the model draws from *)

Id_11 == <<"1", "1">>
Id_2 == <<"2">>
Id_9 == <<"9">>
Trade_7 == <<"7">>
Trade_8 == <<"8">>

\* values Symphony may put in the field named action
ActionValues ==
    { <<>>, Prefix_client \o Id_11, Prefix_fav \o Id_9,
      Prefix_trade_doc \o Trade_7, <<"x">> }

\* other field names; their values do not matter to the handlers
OtherKeys ==
    { Prefix_client \o Id_9, Prefix_fav \o Id_2, Prefix_trade_doc \o Trade_7,
      Prefix_trade_doc \o Trade_8, <<"n", "o", "t", "e">> }

Fields ==
    { <<Str_action, v>> : v \in ActionValues } \cup { <<k, <<>>>> : k \in OtherKeys }

\* ordered maps: no key twice
FieldMaps ==
    { m \in UNION { [1..n -> Fields] : n \in 0..MaxFields } :
        \A i, j \in 1..Len(m) : i # j => m[i][1] # m[j][1] }

\* clients.csv as run() may find it at startup
StartupCsvs ==
    { MissingFile,
      CsvFile(<< Row(<<"1", "1">>, <<" ", "A", "n", "a">>, <<"T", "R", "U", "E">>),
                 Row(<<"A", "1">>, <<"B", "o">>, <<"F", "a", "l", "s", "e">>),
                 Row(<<"2", " ">>, <<"a", "a">>, <<"t", "r", "u", "e", " ">>) >>) }

\* clients.csv as /reload may find it
ReloadCsvs ==
    StartupCsvs \cup
        { CsvFile(<< Row(<<"A", "1">>, <<"B", "o">>, <<"F", "a", "l", "s", "e">>) >>) }

----------------------------------------------------------------------------
(* Events of one interaction *)

\* attachment: the name of the file sent with a reply, None when there is none
Event(ev, cap, what, resp) ==
    [ev |-> ev, cap |-> cap, what |-> what, resp |-> resp, attachment |-> None]
Call(cap) == Event("call", cap, "get", NoResponse)
Return(cap, resp) == Event("return", cap, "got", resp)
Reply(cap, message) == Event("reply", cap, message, NoResponse)
Raise(cap, exception) == Event("raise", cap, exception, NoResponse)
ReplyWithAttachment(cap, message, filename) ==
    [Reply(cap, message) EXCEPT !.attachment = filename]

\* AfterReturn with the credit and trades blocks exchanged
AfterReturn_TradesBeforeCredit(at) ==
    CASE at = "wait_status" -> "call_trades"
      [] at = "wait_trades" -> "call_credit"
      [] at = "wait_credit" -> "done"

\* the handler's next position once a capability's call has returned and its
\* message, if any, is sent (lines 550-593, top to bottom)
AfterReturn(at) ==
    CASE at = "wait_status" -> "call_credit"
      [] at = "wait_credit" -> "call_trades"
      [] at = "wait_trades" -> "done"

----------------------------------------------------------------------------
(* Search specification: the Directory is loaded, then searched *)

QueryChars == {" ", "1", "A", "a"}

Queries == UNION { [1..n -> QueryChars] : n \in 0..MaxQueryLen }

NoQuery == <<"<none>">>

NoText == <<"<none>">>

NoFormId == <<"<none>">>

\* the messages the datafeed delivers to the attachment listener, by message
\* id, and len(message.attachments) of each
MessageIds == {"m0", "m1", "m2"}
attachments(message_id) ==
    CASE message_id = "m0" -> 0
      [] message_id = "m1" -> 1
      [] message_id = "m2" -> 2

InitHandler ==
    /\ handler = "none"
    /\ text = NoText
    /\ pc = "idle"
    /\ form_id = NoFormId
    /\ form_values = <<>>
    /\ selected_id = None
    /\ selected_client = NoClient
    /\ events = <<>>

Init ==
    /\ running = FALSE
    /\ CLIENTS = <<>>
    /\ FAVOURITES = <<>>
    /\ load_returned = "not called"
    /\ query = NoQuery
    /\ matches = <<>>
    /\ InitHandler
    /\ clock = 0
    /\ rendered = <<>>
    /\ processed_messages = {}
    /\ deliveries = <<>>
    /\ downloads = [m \in MessageIds |-> 0]
    /\ summaries = [m \in MessageIds |-> 0]

\* load_clients_from_csv("clients.csv") at startup or by /reload
Load(csv) ==
    /\ query = NoQuery
    /\ LET r == load_clients_from_csv(csv, CLIENTS, FAVOURITES)
       IN  /\ CLIENTS' = r.clients
           /\ FAVOURITES' = r.favourites
           /\ load_returned' = IF r.ok THEN "True" ELSE "False"
    /\ UNCHANGED <<running, renderVars, attachVars, searchVars, handlerVars>>

\* matches = search_clients(query)
Search(q) ==
    /\ query = NoQuery
    /\ query' = q
    /\ matches' = search_clients(q, CLIENTS)
    /\ UNCHANGED <<running, renderVars, attachVars, dirVars, handlerVars>>

\* the caller is done with the result
SearchReturn ==
    /\ query # NoQuery
    /\ query' = NoQuery
    /\ matches' = <<>>
    /\ UNCHANGED <<running, renderVars, attachVars, dirVars, handlerVars>>

NextSearch ==
    \/ \E csv \in CsvFiles \cup ListCsvFiles \cup {MissingFile} : Load(csv)
    \/ \E q \in Queries : Search(q)
    \/ SearchReturn

SpecSearch == Init /\ [][NextSearch]_vars

----------------------------------------------------------------------------
(* The bot: startup, then one search or form-reply interaction after another. *)
(* Interactions share nothing but CLIENTS and FAVOURITES, which no handler   *)
(* writes; the next interaction starts when the handler has returned or      *)
(* raised and its locals are gone. Each await of the handler is a step of    *)
(* its own. send_message returns, except where the code catches its failure  *)
(* (the document send).                                                      *)

Idle == pc = "idle"

\* str(n) of a natural number
RECURSIVE StrOfNat(_)
StrOfNat(n) ==
    IF n < 10 THEN <<Chr(48 + n)>> ELSE StrOfNat(n \div 10) \o <<Chr(48 + (n % 10))>>

Str_client_selection ==
    <<"c", "l", "i", "e", "n", "t", "_", "s", "e", "l", "e", "c", "t", "i", "o", "n", "_">>
Str_favourites_bar == <<"f", "a", "v", "o", "u", "r", "i", "t", "e", "s", "_", "b", "a", "r">>
Str_trades_table == <<"t", "r", "a", "d", "e", "s", "_", "t", "a", "b", "l", "e", "_">>

\* the form ids the three lists are rendered with, at second now
client_selection_form_id(now) == Str_client_selection \o StrOfNat(now)
favourites_bar_form_id == Str_favourites_bar
trades_table_form_id(now) == Str_trades_table \o StrOfNat(now)

\* TradeDocumentActivity.matches with "in" for startswith
TradeDocumentActivity_matches_Contains(id) == StrIn(Str_trades_table, id)

\* TradeDocumentActivity.matches, on context.form_id
TradeDocumentActivity_matches(id) == startswith(id, Str_trades_table)

\* ClientSelectionFormActivity.matches, on context.form_id
ClientSelectionFormActivity_matches(id) ==
    startswith(id, Str_client_selection) \/ id = Str_favourites_bar

\* the form ids of the replies the bot model handles: one of each handler
ReplyFormIds == {favourites_bar_form_id, trades_table_form_id(1)}

\* the handler has returned or raised
Ended == pc \in {"done", "raised"}

\* run(), lines 622-623: load_clients_from_csv("clients.csv"), then the datafeed;
\* run() drops the value the load returns
Startup(csv) ==
    /\ ~running
    /\ running' = TRUE
    /\ LET r == load_clients_from_csv(csv, CLIENTS, FAVOURITES)
       IN  /\ CLIENTS' = r.clients
           /\ FAVOURITES' = r.favourites
           /\ load_returned' = "not called"
    /\ UNCHANGED <<searchVars, handlerVars, renderVars, attachVars>>

\* ClientSelectionFormActivity.on_activity up to its first send_message
SelStart(id, fv) ==
    /\ running /\ Idle
    /\ ClientSelectionFormActivity_matches(id)
    /\ form_id' = id
    /\ handler' = "client"
    /\ form_values' = fv
    /\ text' = text
    /\ selected_id' = ClientSelectionScan(fv)
    /\ IF Truthy(selected_id')
       THEN /\ selected_client' = FindClient(CLIENTS, selected_id')
            /\ IF selected_client' # NoClient
               THEN /\ events' = <<Reply("none", "confirmation")>>
                    /\ pc' = "call_status"
               ELSE /\ events' = <<Reply("none", "client_not_found")>>
                    /\ pc' = "done"
       ELSE /\ selected_client' = NoClient
            /\ events' = <<Reply("none", "no_selection")>>
            /\ pc' = "done"
    /\ UNCHANGED <<running, renderVars, attachVars, dirVars, searchVars>>

\* SelCallStatus with the status and credit requests sent together (a gather)
SelCallStatus_Gather ==
    /\ handler = "client" /\ pc = "call_status"
    /\ events' = events \o <<Call("status"), Call("credit")>>
    /\ pc' = "wait_status"
    /\ UNCHANGED <<running, renderVars, attachVars, dirVars, searchVars, handler, text, form_id,
                   form_values, selected_id,
                   selected_client>>

\* await get_client_status(selected_client_id): the request goes out
SelCallStatus ==
    /\ handler = "client" /\ pc = "call_status"
    /\ events' = Append(events, Call("status"))
    /\ pc' = "wait_status"
    /\ UNCHANGED <<running, renderVars, attachVars, dirVars, searchVars, handler, text, form_id,
                   form_values, selected_id,
                   selected_client>>

\* get_client_status returns; lines 554-562
SelStatusReturn(resp) ==
    /\ handler = "client" /\ pc = "wait_status"
    /\ LET status == get_client_status(resp)
           returned == Append(events, Return("status", resp))
       IN  IF JsonTruthy(status)
           THEN IF "status_line" \in status.keys
                THEN /\ events' = Append(returned, Reply("status", "status_message"))
                     /\ pc' = AfterReturn(pc)
                ELSE /\ events' = Append(returned, Raise("status", "KeyError"))
                     /\ pc' = "raised"
           ELSE /\ events' = returned
                /\ pc' = AfterReturn(pc)
    /\ UNCHANGED <<running, renderVars, attachVars, dirVars, searchVars, handler, text, form_id,
                   form_values, selected_id,
                   selected_client>>

\* await get_client_credit_lines(selected_client_id): the request goes out
SelCallCredit ==
    /\ handler = "client" /\ pc = "call_credit"
    /\ events' = Append(events, Call("credit"))
    /\ pc' = "wait_credit"
    /\ UNCHANGED <<running, renderVars, attachVars, dirVars, searchVars, handler, text, form_id,
                   form_values, selected_id,
                   selected_client>>

\* get_client_credit_lines returns; lines 568-576
SelCreditReturn(resp) ==
    /\ handler = "client" /\ pc = "wait_credit"
    /\ LET credit == get_client_credit_lines(resp)
           returned == Append(events, Return("credit", resp))
       IN  IF JsonTruthy(credit)
           THEN IF "credit_line" \in credit.keys
                THEN /\ events' = Append(returned, Reply("credit", "credit_message"))
                     /\ pc' = AfterReturn(pc)
                ELSE /\ events' = Append(returned, Raise("credit", "KeyError"))
                     /\ pc' = "raised"
           ELSE /\ events' = returned
                /\ pc' = AfterReturn(pc)
    /\ UNCHANGED <<running, renderVars, attachVars, dirVars, searchVars, handler, text, form_id,
                   form_values, selected_id,
                   selected_client>>

\* await get_client_trades(selected_client_id): the request goes out
SelCallTrades ==
    /\ handler = "client" /\ pc = "call_trades"
    /\ events' = Append(events, Call("trades"))
    /\ pc' = "wait_trades"
    /\ UNCHANGED <<running, renderVars, attachVars, dirVars, searchVars, handler, text, form_id,
                   form_values, selected_id,
                   selected_client>>

\* get_client_trades returns; lines 582-593
SelTradesReturn(resp) ==
    /\ handler = "client" /\ pc = "wait_trades"
    /\ LET trades == get_client_trades(resp)
           returned == Append(events, Return("trades", resp))
       IN  IF trades # JsonNone
           THEN IF create_trades_table(trades) = "raise"
                THEN /\ events' = Append(returned, Raise("trades", "AttributeError"))
                     /\ pc' = "raised"
                ELSE /\ events' = Append(returned,
                                         Reply("trades", create_trades_table(trades)))
                     /\ pc' = AfterReturn(pc)
           ELSE /\ events' = Append(returned, Reply("trades", "trades_error"))
                /\ pc' = AfterReturn(pc)
    /\ UNCHANGED <<running, renderVars, attachVars, dirVars, searchVars, handler, text, form_id,
                   form_values, selected_id,
                   selected_client>>

\* what GET /document/{trade_number} may answer: the body is bytes, the
\* content-disposition header is present or not
\* Content-Disposition headers of the document backend: none, one without a
\* file name, the file name quoted, bare, and followed by its RFC 6266 twin
Dispositions ==
    { None,
      <<"a", "t", "t", "a", "c", "h", "m", "e", "n", "t">>,
      <<"a", "t", "t", "a", "c", "h", "m", "e", "n", "t", ";", " ", "f",
      "i", "l", "e", "n", "a", "m", "e", "=", "<dq>", "c", "7", ".", "p",
      "d", "f", "<dq>">>,
      <<"a", "t", "t", "a", "c", "h", "m", "e", "n", "t", ";", " ", "f",
      "i", "l", "e", "n", "a", "m", "e", "=", "c", "7", ".", "p", "d", "f">>,
      <<"a", "t", "t", "a", "c", "h", "m", "e", "n", "t", ";", " ", "f",
      "i", "l", "e", "n", "a", "m", "e", "=", "<dq>", "c", "7", ".", "p",
      "d", "f", "<dq>", ";", " ", "f", "i", "l", "e", "n", "a", "m", "e",
      "*", "=", "U", "T", "F", "-", "8", "'", "'", "c", "7", ".", "p", "d",
      "f">> }

HttpDocument(status, disposition) ==
    [Http(status, Json("bytes", {}, 0)) EXCEPT !.disposition = disposition]

DocumentResponses ==
    { HttpDocument(200, d) : d \in Dispositions }
        \cup { Http(404, JsonNone), Http(500, JsonNone), ConnectorError, Timeout }

Str_filename == <<"f", "i", "l", "e", "n", "a", "m", "e", "=">>
Str_pdf == <<".", "p", "d", "f">>

\* lines 293-298: the name given to the attachment
attachment_filename(resp, trade_number) ==
    LET content_disposition == IF resp.disposition = None THEN <<>> ELSE resp.disposition
    IN  IF StrIn(Str_filename, content_disposition)
        THEN StripChar(SplitSecond(content_disposition, Str_filename), "<dq>")
        ELSE trade_number \o Str_pdf

\* TradeDocumentActivity.on_activity up to its first send_message.
\* user_first_name (line 250) only fills the markup; the display name is taken
\* to be empty or to hold a word, so that split()[0] exists
DocStart(id, fv) ==
    /\ running /\ Idle
    /\ TradeDocumentActivity_matches(id)
    /\ form_id' = id
    /\ handler' = "trade"
    /\ form_values' = fv
    /\ text' = text
    /\ selected_id' = TradeDocumentScan(fv)
    /\ selected_client' = NoClient
    /\ IF Truthy(selected_id')
       THEN /\ events' = <<Reply("none", "fetching_contract")>>
            /\ pc' = "call_document"
       ELSE /\ events' = <<Reply("none", "no_trade_number")>>
            /\ pc' = "done"
    /\ UNCHANGED <<running, renderVars, attachVars, dirVars, searchVars>>

\* _download_and_send_trade_document: the request goes out
DocCall ==
    /\ handler = "trade" /\ pc = "call_document"
    /\ events' = Append(events, Call("document"))
    /\ pc' = "wait_document"
    /\ UNCHANGED <<running, renderVars, attachVars, dirVars, searchVars, handler, text, form_id,
                   form_values, selected_id,
                   selected_client>>

\* DocReturn without the error message when the download returned 200 and
\* sending the attachment failed
DocReturn_SilentSendFailure(resp, sent) ==
    /\ handler = "trade" /\ pc = "wait_document"
    /\ LET returned == Append(events, Return("document", resp))
           ok == resp.kind = "http" /\ resp.status = 200
       IN  events' =
               IF ok /\ sent
               THEN Append(returned,
                        ReplyWithAttachment("document", "contract",
                                            attachment_filename(resp, selected_id)))
               ELSE IF ok THEN returned
               ELSE Append(returned, Reply("document", "contract_not_found"))
    /\ pc' = "done"
    /\ UNCHANGED <<running, renderVars, attachVars, dirVars, searchVars, handler, text, form_id,
                   form_values, selected_id,
                   selected_client>>

\* _download_and_send_trade_document returns success; lines 264-271
\* sent: whether send_message with the attachment returned (else it raised inside
\* the try block and the function returns False)
DocReturn(resp, sent) ==
    /\ handler = "trade" /\ pc = "wait_document"
    /\ LET returned == Append(events, Return("document", resp))
           success == resp.kind = "http" /\ resp.status = 200 /\ sent
       IN  events' =
               IF success
               THEN Append(returned,
                        ReplyWithAttachment("document", "contract",
                                            attachment_filename(resp, selected_id)))
               ELSE Append(returned, Reply("document", "contract_not_found"))
    /\ pc' = "done"
    /\ UNCHANGED <<running, renderVars, attachVars, dirVars, searchVars, handler, text, form_id,
                   form_values, selected_id,
                   selected_client>>

\* ClientSearchActivity.matches
Str_slash == <<"/">>
Str_find == <<"f", "i", "n", "d", " ">>
Str_fav == <<"f", "a", "v">>

\* ClientSearchActivity.matches without lower(): the keywords in lower case only
ClientSearchActivity_matches_CaseSensitive(content) ==
    LET t == strip(content)
    IN  IF startswith(t, Str_slash) THEN FALSE
        ELSE IF startswith(t, Str_find) THEN TRUE
        ELSE t = Str_fav

ClientSearchActivity_matches(content) ==
    LET t == strip(lower(content))
    IN  IF startswith(t, Str_slash) THEN FALSE
        ELSE IF startswith(t, Str_find) THEN TRUE
        ELSE t = Str_fav

\* create_client_selection_form: the markup it returns, by kind
create_client_selection_form(found) ==
    IF found = <<>> THEN "no_clients_found" ELSE "client_selection_form"

\* create_favourites_bar: the empty string when FAVOURITES is empty
create_favourites_bar(favourites) ==
    IF favourites = <<>> THEN "" ELSE "favourites_bar"

\* text messages of a user
Texts ==
    { <<"f", "a", "v">>,
      <<" ", "F", "A", "V", " ">>,
      <<"f", "i", "n", "d", " ", "a">>,
      <<"F", "i", "n", "d", " ", " ", "1">>,
      <<" ", "f", "i", "n", "d", " ", "z", "z">>,
      <<"f", "i", "n", "d", " ", "a", " ">>,
      <<"f", "i", "n", "d", " ">>,
      <<"f", "i", "n", "d">>,
      <<"/", "f", "i", "n", "d", " ", "a">>,
      <<" ", "/", "f", "a", "v">>,
      <<"h", "e", "l", "l", "o">>,
      <<"A", "n", "a">>,
      <<"@", "B", "o">>,
      <<>> }

\* ClientSearchActivity.on_activity, whole: its one await is the send_message
\* at its end, which is taken to return
SearchStart(content) ==
    /\ running /\ Idle
    /\ ClientSearchActivity_matches(content)
    /\ handler' = "search"
    /\ text' = content
    /\ LET t == strip(content)
       IN  IF lower(t) = Str_fav
           THEN /\ events' = <<Reply("none", create_favourites_bar(FAVOURITES))>>
                /\ UNCHANGED searchVars
           ELSE /\ query' = IF startswith(lower(t), Str_find) THEN SliceFrom(t, 5) ELSE t
                /\ matches' = search_clients(query', CLIENTS)
                /\ events' =
                      << Reply("none", IF matches' # <<>>
                                       THEN create_client_selection_form(matches')
                                       ELSE "no_matches") >>
    /\ pc' = "done"
    /\ UNCHANGED <<running, renderVars, attachVars, dirVars, form_id, form_values, selected_id,
                   selected_client>>

\* a text message that ClientSearchActivity.matches turns down: on_activity is
\* not run (the slash commands claim only their own names)
TextUnclaimed(content) ==
    /\ running /\ Idle
    /\ ~ClientSearchActivity_matches(content)
    /\ handler' = "none"
    /\ text' = content
    /\ events' = <<>>
    /\ pc' = "done"
    /\ UNCHANGED <<running, renderVars, attachVars, dirVars, searchVars, form_id, form_values,
                   selected_id, selected_client>>

\* reload_command up to its first send_message: the load, then the message
\* that tells its outcome
ReloadStart(csv) ==
    /\ running /\ Idle
    /\ handler' = "reload"
    /\ LET r == load_clients_from_csv(csv, CLIENTS, FAVOURITES)
       IN  /\ CLIENTS' = r.clients
           /\ FAVOURITES' = r.favourites
           /\ load_returned' = IF r.ok THEN "True" ELSE "False"
           /\ events' = <<Reply("none", IF r.ok THEN "reloaded" ELSE "using_sample_data")>>
    /\ pc' = "reload_sleep"
    /\ UNCHANGED <<running, renderVars, attachVars, searchVars, text, form_id, form_values, selected_id,
                   selected_client>>

\* reload_command after asyncio.sleep(0.5): the favourites bar is sent
ReloadRefresh ==
    /\ handler = "reload" /\ pc = "reload_sleep"
    /\ events' = Append(events, Reply("none", create_favourites_bar(FAVOURITES)))
    /\ pc' = "done"
    /\ UNCHANGED <<running, renderVars, attachVars, dirVars, searchVars, handler, text, form_id,
                   form_values, selected_id,
                   selected_client>>

\* the coroutine is over: its locals and the context are discarded
HandlerExit ==
    /\ Ended
    /\ handler' = "none"
    /\ text' = NoText
    /\ form_id' = NoFormId
    /\ query' = NoQuery
    /\ matches' = <<>>
    /\ pc' = "idle"
    /\ form_values' = <<>>
    /\ selected_id' = None
    /\ selected_client' = NoClient
    /\ events' = <<>>
    /\ load_returned' = "not called"
    /\ UNCHANGED <<running, renderVars, attachVars, CLIENTS, FAVOURITES>>

Next ==
    \/ \E csv \in StartupCsvs : Startup(csv)
    \/ \E id \in ReplyFormIds, fv \in FieldMaps : SelStart(id, fv)
    \/ SelCallStatus
    \/ \E resp \in Responses : SelStatusReturn(resp)
    \/ SelCallCredit
    \/ \E resp \in Responses : SelCreditReturn(resp)
    \/ SelCallTrades
    \/ \E resp \in Responses : SelTradesReturn(resp)
    \/ \E id \in ReplyFormIds, fv \in FieldMaps : DocStart(id, fv)
    \/ DocCall
    \/ \E resp \in DocumentResponses, sent \in BOOLEAN : DocReturn(resp, sent)
    \/ \E content \in Texts : SearchStart(content)
    \/ \E content \in Texts : TextUnclaimed(content)
    \/ \E csv \in ReloadCsvs : ReloadStart(csv)
    \/ ReloadRefresh
    \/ HandlerExit

Spec == Init /\ [][Next]_vars

----------------------------------------------------------------------------
(* Buttons: the names the forms give them, and a click on one of them *)

\* create_client_selection_form, line 385: f"client_{client['client_id']}"
client_button_name(client_id) == Prefix_client \o client_id

\* create_favourites_bar, line 409: f"fav_{client['client_id']}"
fav_button_name(client_id) == Prefix_fav \o client_id

\* create_trades_table, line 192: name="trade_doc_{trade_number}"
trade_doc_button_name(trade_number) == Prefix_trade_doc \o trade_number

button_name(namespace, id) ==
    CASE namespace = "client" -> client_button_name(id)
      [] namespace = "fav" -> fav_button_name(id)
      [] namespace = "trade_doc" -> trade_doc_button_name(id)

Namespaces == {"client", "fav", "trade_doc"}

\* ids of the Directory's CSV and of the trades backend: any text, the empty
\* one, ones with underscores and ones that begin with a button prefix
IdChars == {"1", "_"}

ButtonIds ==
    LET short == UNION { [1..n -> IdChars] : n \in 0..MaxIdLen }
    IN  short \cup { p \o t : p \in {Prefix_client, Prefix_fav, Prefix_trade_doc},
                                t \in short }

\* the form values of a click: the button's name as the value of the field
\* action (lines 509-510), or as a field name (lines 517-518)
SubmittedForms(name) == { << <<Str_action, name>> >>, << <<name, <<>>>> >> }

\* form ids a reply may carry: the ids the bot renders, and ids that hold the
\* bot's prefixes elsewhere or not at all
FormIds ==
    { client_selection_form_id(1), favourites_bar_form_id, trades_table_form_id(1),
      Str_client_selection \o Str_trades_table \o <<"1">>,
      Str_trades_table \o Str_favourites_bar,
      Str_favourites_bar \o <<"_", "1">>,
      <<"f", "o", "r", "m">>, <<>> }

\* the user clicks the button of (namespace, id) in a form with the id given;
\* every registered form-reply handler whose matches() claims the reply
\* decodes it
Click(id, namespace, button_id) ==
    \E fv \in SubmittedForms(button_name(namespace, button_id)) :
        SelStart(id, fv) \/ DocStart(id, fv)

\* a form reply that no handler's matches() claims
FormUnclaimed(id) ==
    /\ running /\ Idle
    /\ ~ClientSelectionFormActivity_matches(id)
    /\ ~TradeDocumentActivity_matches(id)
    /\ form_id' = id
    /\ handler' = "none"
    /\ events' = <<>>
    /\ pc' = "done"
    /\ UNCHANGED <<running, renderVars, attachVars, dirVars, searchVars, text, form_values,
                   selected_id, selected_client>>

NextButtons ==
    \/ Next
    \/ \E id \in FormIds, namespace \in Namespaces, button_id \in ButtonIds :
          Click(id, namespace, button_id)
    \/ \E id \in FormIds : FormUnclaimed(id)

SpecButtons == Init /\ [][NextButtons]_vars

-----------------------------------------------------------------------------
(* The lists the bot renders, and the form ids they are rendered with *)

\* a second of time.time() passes
Tick ==
    /\ clock < MaxClock
    /\ clock' = clock + 1
    /\ UNCHANGED <<running, dirVars, searchVars, handlerVars, rendered, attachVars>>

\* ClientSearchActivity.on_activity renders the search-result form of a
\* query that has matches, with request_id = str(int(time.time()))
RenderSearchResults(q) ==
    /\ running
    /\ Len(rendered) < MaxRendered
    /\ search_clients(q, CLIENTS) # <<>>
    /\ rendered' = Append(rendered, client_selection_form_id(clock))
    /\ UNCHANGED <<running, dirVars, searchVars, handlerVars, clock, attachVars>>

\* favourites_command (and 'fav', /reload): create_favourites_bar renders the
\* bar when FAVOURITES is not empty
RenderFavouritesBar ==
    /\ running
    /\ Len(rendered) < MaxRendered
    /\ create_favourites_bar(FAVOURITES) # ""
    /\ rendered' = Append(rendered, favourites_bar_form_id)
    /\ UNCHANGED <<running, dirVars, searchVars, handlerVars, clock, attachVars>>

\* create_trades_table renders the table of a list of trades that is not empty
RenderTradesTable(trades) ==
    /\ running
    /\ Len(rendered) < MaxRendered
    /\ create_trades_table(trades) = "trades_table"
    /\ rendered' = Append(rendered, trades_table_form_id(clock))
    /\ UNCHANGED <<running, dirVars, searchVars, handlerVars, clock, attachVars>>

NextForms ==
    \/ \E csv \in StartupCsvs : Startup(csv)
    \/ Tick
    \/ \E q \in Queries : RenderSearchResults(q)
    \/ RenderFavouritesBar
    \/ \E trades \in Bodies : RenderTradesTable(trades)

SpecForms == Init /\ [][NextForms]_vars

-----------------------------------------------------------------------------
(* The attachment listener: on_message_sent coroutines of the datafeed *)

\* an on_message_sent coroutine: its message, the attachment its loop is at,
\* and its position
Delivery(message_id, attachment, at) ==
    [message_id |-> message_id, attachment |-> attachment, pc |-> at]

\* on_message_sent up to its first await, with line 55 left out
Deliver_NoAdd(message_id) ==
    /\ Len(deliveries) < MaxDeliveries
    /\ IF attachments(message_id) = 0
       THEN deliveries' = Append(deliveries, Delivery(message_id, 0, "no_attachments"))
       ELSE IF message_id \in processed_messages
       THEN deliveries' = Append(deliveries, Delivery(message_id, 0, "duplicate"))
       ELSE deliveries' = Append(deliveries, Delivery(message_id, 1, "download"))
    /\ UNCHANGED processed_messages
    /\ UNCHANGED <<running, dirVars, searchVars, handlerVars, renderVars, downloads,
                   summaries>>

\* on_message_sent up to its first await: a message without attachments and a
\* message id already in processed_messages return; no await lies between the
\* test of line 52 and the add of line 55
Deliver(message_id) ==
    /\ Len(deliveries) < MaxDeliveries
    /\ IF attachments(message_id) = 0
       THEN /\ deliveries' = Append(deliveries, Delivery(message_id, 0, "no_attachments"))
            /\ UNCHANGED processed_messages
       ELSE IF message_id \in processed_messages
       THEN /\ deliveries' = Append(deliveries, Delivery(message_id, 0, "duplicate"))
            /\ UNCHANGED processed_messages
       ELSE /\ processed_messages' = processed_messages \cup {message_id}
            /\ deliveries' = Append(deliveries, Delivery(message_id, 1, "download"))
    /\ UNCHANGED <<running, dirVars, searchVars, handlerVars, renderVars, downloads,
                   summaries>>

\* await self._download_attachment(...) returns: a string, whether the file
\* was saved or not (it catches every exception)
Download(d) ==
    /\ deliveries[d].pc = "download"
    /\ downloads' = [downloads EXCEPT ![deliveries[d].message_id] = @ + 1]
    /\ deliveries' = [deliveries EXCEPT ![d].pc = "preview"]
    /\ UNCHANGED <<running, dirVars, searchVars, handlerVars, renderVars,
                   processed_messages, summaries>>

\* await self._get_file_preview(...) returns (it catches every exception);
\* the loop goes to the next attachment or ends
Preview(d) ==
    /\ deliveries[d].pc = "preview"
    /\ deliveries' =
          IF deliveries[d].attachment < attachments(deliveries[d].message_id)
          THEN [deliveries EXCEPT ![d].attachment = @ + 1, ![d].pc = "download"]
          ELSE [deliveries EXCEPT ![d].pc = "send"]
    /\ UNCHANGED <<running, dirVars, searchVars, handlerVars, renderVars,
                   processed_messages, downloads, summaries>>

\* await send_message(stream_id, response), lines 95-102: the summary is sent,
\* or the call raises and the handler of line 104 is entered
SendSummary(d, sent) ==
    /\ deliveries[d].pc = "send"
    /\ IF sent
       THEN /\ summaries' = [summaries EXCEPT ![deliveries[d].message_id] = @ + 1]
            /\ deliveries' = [deliveries EXCEPT ![d].pc = "done"]
       ELSE /\ summaries' = summaries
            /\ deliveries' = [deliveries EXCEPT ![d].pc = "error_reply"]
    /\ UNCHANGED <<running, dirVars, searchVars, handlerVars, renderVars,
                   processed_messages, downloads>>

\* lines 110-116: the error message is sent, or not (the bare except passes)
SendError(d) ==
    /\ deliveries[d].pc = "error_reply"
    /\ deliveries' = [deliveries EXCEPT ![d].pc = "done"]
    /\ UNCHANGED <<running, dirVars, searchVars, handlerVars, renderVars,
                   processed_messages, downloads, summaries>>

NextAttachment ==
    \/ \E message_id \in MessageIds : Deliver(message_id)
    \/ \E d \in DOMAIN deliveries : Download(d)
    \/ \E d \in DOMAIN deliveries : Preview(d)
    \/ \E d \in DOMAIN deliveries, sent \in BOOLEAN : SendSummary(d, sent)
    \/ \E d \in DOMAIN deliveries : SendError(d)

SpecAttachment == Init /\ [][NextAttachment]_vars

----------------------------------------------------------------------------
(* Vocabulary of the properties *)

Range(f) == { f[i] : i \in DOMAIN f }

\* the three enrichment capabilities in the order the contract fixes
CapabilityOrder == <<"status", "credit", "trades">>
Capabilities == Range(CapabilityOrder)
Rank(cap) == CHOOSE k \in DOMAIN CapabilityOrder : CapabilityOrder[k] = cap

\* EnrichmentOutcome of a backend answer
Outcome(resp) ==
    IF resp.kind = "http" /\ resp.status = 200 THEN "Present"
    ELSE IF resp.kind = "http" /\ resp.status = 404 THEN "Empty"
    ELSE "Unavailable"

\* an enrichment run: the client-selection handler found the selected client
Enriching == handler = "client" /\ selected_client # NoClient

Issued(cap) == \E i \in DOMAIN events : events[i].ev = "call" /\ events[i].cap = cap
Replied(cap) == \E i \in DOMAIN events : events[i].ev = "reply" /\ events[i].cap = cap
RepliedWith(cap, messages) ==
    \E i \in DOMAIN events :
        events[i].ev = "reply" /\ events[i].cap = cap /\ events[i].what \in messages
Returned(cap, outcome) ==
    \E i \in DOMAIN events :
        events[i].ev = "return" /\ events[i].cap = cap /\ Outcome(events[i].resp) = outcome
RaisedAt(cap) == \E i \in DOMAIN events : events[i].ev = "raise" /\ events[i].cap = cap

\* the markup that reports a capability as unavailable, and as having no data
UnavailableMessages == {"trades_error"}
NoDataMessages == {"no_trades"}

\* the field named action, if any
ActionFields(fv) == { i \in DOMAIN fv : fv[i][1] = Str_action }
ActionValue(fv) == fv[CHOOSE i \in ActionFields(fv) : TRUE][2]

\* s begins with p, and what follows p in s
HasPrefix(s, p) == \E t \in {SubSeq(s, k, Len(s)) : k \in 1..Len(s) + 1} : s = p \o t
Stripped(s, p) == CHOOSE t \in {SubSeq(s, k, Len(s)) : k \in 1..Len(s) + 1} : s = p \o t

\* the prefixes each handler recognises
Recognised(h) == IF h = "client" THEN {Prefix_client, Prefix_fav} ELSE {Prefix_trade_doc}

HasRecognisedPrefix(s, h) == \E p \in Recognised(h) : HasPrefix(s, p)
StrippedOf(s, h) == Stripped(s, CHOOSE p \in Recognised(h) : HasPrefix(s, p))

\* positions of the field names with a recognised prefix
PrefixedNames(fv, h) == { i \in DOMAIN fv : HasRecognisedPrefix(fv[i][1], h) }
FirstOf(S) == CHOOSE i \in S : \A j \in S : i <= j

\* the tokens of a string: its maximal runs of non-space characters
TokensOf(s) ==
    { SubSeq(s, i, j) : <<i, j>> \in
        { w \in (1..Len(s)) \X (1..Len(s)) :
            /\ w[1] <= w[2]
            /\ \A k \in w[1]..w[2] : s[k] # " "
            /\ (w[1] = 1 \/ s[w[1] - 1] = " ")
            /\ (w[2] = Len(s) \/ s[w[2] + 1] = " ") } }

\* t occurs in s
IsSubstring(t, s) ==
    \E i \in 0..(Len(s) - Len(t)) : \A k \in 1..Len(t) : s[i + k] = t[k]

RecordMatches(c, q) ==
    \A t \in TokensOf(lower(q)) :
        IsSubstring(t, lower(c.client_name)) \/ IsSubstring(t, lower(c.client_id))

MatchingRecords(q) == { c \in Range(CLIENTS) : RecordMatches(c, q) }

\* s <= t in the order of Python strings
NameLeq(s, t) ==
    \/ Len(s) <= Len(t) /\ SubSeq(t, 1, Len(s)) = s
    \/ \E k \in 1..Len(s) :
        /\ k <= Len(t)
        /\ SubSeq(s, 1, k - 1) = SubSeq(t, 1, k - 1)
        /\ CodePoint[s[k]] < CodePoint[t[k]]

Searched == query # NoQuery

\* the files a load can read
LoadableFiles == CsvFiles \cup ListCsvFiles \cup {MissingFile}

\* the Directories that are the complete result of one successful load
CompleteDirectories ==
    { <<r.clients, r.favourites>> : r \in
        { l \in { load_clients_from_csv(csv, <<>>, <<>>) : csv \in LoadableFiles } :
            l.ok } }

\* the records of CLIENTS marked as favourites
FavouriteRecords == { c \in Range(CLIENTS) : c.is_favourite }

----------------------------------------------------------------------------
(* Properties *)

\* C1: in an enrichment run that has ended, whatever the status and credit calls
\* answered, the credit call and the trades call were issued and the trades
\* reply was sent (an exception while rendering the trades themselves apart).
C1_FailSoft ==
    (Enriching /\ Ended /\ ~RaisedAt("trades")) =>
        Issued("credit") /\ Issued("trades") /\ Replied("trades")

\* C2: in an enrichment run the backend calls are issued in the order status,
\* credit, trades, and the capability replies sent appear in that order too.
C2_FixedOrder ==
    Enriching =>
        LET calls == SelectSeq(events, LAMBDA e : e.ev = "call")
            replies == SelectSeq(events,
                           LAMBDA e : e.ev = "reply" /\ e.cap \in Capabilities)
        IN  /\ Len(calls) <= Len(CapabilityOrder)
            /\ \A k \in DOMAIN calls : calls[k].cap = CapabilityOrder[k]
            /\ \A i, j \in DOMAIN replies :
                   i < j => Rank(replies[i].cap) < Rank(replies[j].cap)

C2_Witness ==
    /\ Enriching /\ pc = "done"
    /\ Replied("status") /\ Replied("credit") /\ Replied("trades")

\* C3: in an enrichment run that has completed, every capability whose call
\* ended Unavailable has a failure message of its own among the replies.
C3_UnavailableReported ==
    (Enriching /\ pc = "done") =>
        \A cap \in Capabilities :
            Returned(cap, "Unavailable") => RepliedWith(cap, UnavailableMessages)

\* C4: in an enrichment run that has completed, every capability whose call
\* answered 404 has a no-data reply, which is not the reply for Unavailable.
C4_NotFoundIsNoData ==
    (Enriching /\ pc = "done") =>
        \A cap \in Capabilities :
            Returned(cap, "Empty") =>
                /\ RepliedWith(cap, NoDataMessages)
                /\ ~RepliedWith(cap, UnavailableMessages)

\* C5 as claimed: for every query, the result holds exactly the records of
\* which every token of the lowercased query is a substring of the lowercased
\* name or of the lowercased id.
C5_ExactlyTheMatching_EveryQuery ==
    Searched => Range(matches) = MatchingRecords(query)

\* C5 as amended: the same for every query but the empty string, for which the
\* result is empty; no record is returned twice.
C5_ExactlyTheMatching ==
    Searched =>
        IF query = <<>> THEN matches = <<>>
        ELSE /\ Range(matches) = MatchingRecords(query)
             /\ Len(matches) = Cardinality(MatchingRecords(query))

C5_Witness ==
    /\ query = <<"A", " ", "1">>
    /\ Len(matches) = 2
    /\ Len(CLIENTS) = 3
    /\ \E i \in DOMAIN matches :
           /\ ~IsSubstring(<<"1">>, lower(matches[i].client_name))
           /\ ~IsSubstring(<<"a">>, lower(matches[i].client_id))

\* C6: a query that is empty after trimming returns the empty sequence.
C6_BlankQueryEmpty ==
    (Searched /\ \A i \in DOMAIN query : query[i] = " ") => matches = <<>>

\* C7: in the result every favourite comes before every non-favourite, and
\* within each of the two groups the names ascend.
C7_FavouritesFirstThenName ==
    Searched =>
        \A i, j \in DOMAIN matches :
            i < j =>
                /\ matches[j].is_favourite => matches[i].is_favourite
                /\ matches[i].is_favourite = matches[j].is_favourite =>
                       NameLeq(matches[i].client_name, matches[j].client_name)

C7_Witness ==
    /\ Searched
    /\ Len(matches) = 3
    /\ matches[1].is_favourite /\ matches[2].is_favourite /\ ~matches[3].is_favourite
    /\ matches[1].client_name # matches[2].client_name
    /\ matches # CLIENTS
    /\ ~NameLeq(matches[2].client_name, matches[3].client_name)

\* C8: when the form has a field named action whose value starts with a prefix
\* the handler recognises, the decoded id is that value without the prefix,
\* wherever the field stands in the map.
C8_ActionValueDecoded ==
    (handler \in {"client", "trade"} /\ ActionFields(form_values) # {}
        /\ HasRecognisedPrefix(ActionValue(form_values), handler)) =>
            selected_id = StrippedOf(ActionValue(form_values), handler)

\* C9: when the form has no field named action, the decoded id is the first
\* field name, in map order, that starts with a prefix the handler recognises,
\* without the prefix.
C9_FirstPrefixedName ==
    (handler \in {"client", "trade"} /\ ActionFields(form_values) = {}
        /\ PrefixedNames(form_values, handler) # {}) =>
            selected_id =
                StrippedOf(form_values[FirstOf(PrefixedNames(form_values, handler))][1],
                           handler)

C9_Witness ==
    /\ handler = "client"
    /\ ActionFields(form_values) = {}
    /\ Cardinality(PrefixedNames(form_values, handler)) = 2
    /\ selected_id = Id_9
    /\ form_values[2][1] = Prefix_fav \o Id_2

C12_FailedLoadKeepsDirectory ==
    [][ \A csv \in LoadableFiles :
            (Load(csv) /\ load_returned' = "False") =>
                (CLIENTS' = CLIENTS /\ FAVOURITES' = FAVOURITES) ]_vars

\* C13: whenever a handler reads the Directory (here the search handler, which
\* reads CLIENTS between loads), it is the initial empty Directory or the
\* complete result of one successful load, never a partly rebuilt one.
C13_ReadsSeeCompleteLoad ==
    Searched =>
        \/ CLIENTS = <<>> /\ FAVOURITES = <<>>
        \/ <<CLIENTS, FAVOURITES>> \in CompleteDirectories

\* C14: after a successful load FAVOURITES is exactly the favourite records of
\* CLIENTS in ascending order of name, cut to the first 10 (so 10 entries when
\* 15 rows are favourites), and in no reachable state does FAVOURITES hold more
\* than 10 entries.
C14_FavouritesSortedCapped ==
    /\ load_returned = "True" =>
          /\ Range(FAVOURITES) \subseteq FavouriteRecords
          /\ \A i, j \in DOMAIN FAVOURITES :
                i < j => /\ FAVOURITES[i] # FAVOURITES[j]
                         /\ NameLeq(FAVOURITES[i].client_name, FAVOURITES[j].client_name)
          /\ \A c \in FavouriteRecords \ Range(FAVOURITES) :
                \A i \in DOMAIN FAVOURITES :
                    NameLeq(FAVOURITES[i].client_name, c.client_name)
          /\ Len(FAVOURITES) = IF Cardinality(FavouriteRecords) < 10
                               THEN Cardinality(FavouriteRecords) ELSE 10
          /\ Cardinality(FavouriteRecords) = 15 => Len(FAVOURITES) = 10
    /\ Len(FAVOURITES) <= 10

\* C15: in every reachable state, after any sequence of startup load, successful
\* reloads and failed reloads, every record of FAVOURITES is a record of CLIENTS.
C15_FavouritesAreClients == Range(FAVOURITES) \subseteq Range(CLIENTS)

C15_Witness ==
    /\ load_returned = "False"
    /\ FAVOURITES # <<>>
    /\ Len(FAVOURITES) < Len(CLIENTS)

\* the id of the form that shows the buttons of a namespace (rendered at second 1)
RenderedWith(namespace) ==
    CASE namespace = "client" -> client_selection_form_id(1)
      [] namespace = "fav" -> favourites_bar_form_id
      [] namespace = "trade_doc" -> trades_table_form_id(1)

\* the handler that decodes the buttons of a namespace
DecoderOf(namespace) == IF namespace = "trade_doc" THEN "trade" ELSE "client"

\* the handler runs on the reply to a click on the button of (namespace, id)
Clicked(namespace, id) ==
    /\ handler = DecoderOf(namespace)
    /\ form_id = RenderedWith(namespace)
    /\ form_values \in SubmittedForms(button_name(namespace, id))

\* the handler took the form for one without a selection
NoSelection == RepliedWith("none", {"no_selection", "no_trade_number"})

\* C11: for every namespace of client, fav, trade_doc and every id, ids with
\* underscores and ids beginning with another namespace's prefix included,
\* decoding the button name built for (namespace, id) yields exactly that id,
\* as a selection and not as NoSelection.
C11_RoundTrip_EveryId ==
    Len(form_values) = 1 => \A namespace \in Namespaces, id \in ButtonIds :
        Clicked(namespace, id) => (selected_id = id /\ ~NoSelection)

\* C11, for the ids that are not the empty string
C11_RoundTrip ==
    Len(form_values) = 1 => \A namespace \in Namespaces, id \in ButtonIds \ {<<>>} :
        Clicked(namespace, id) => (selected_id = id /\ ~NoSelection)

C11_Witness ==
    /\ Clicked("fav", Prefix_client \o <<"_", "1">>)
    /\ selected_id = Prefix_client \o <<"_", "1">>
    /\ RepliedWith("none", {"client_not_found"})

\* a reply the user can see: a message that is not the empty string
VisibleReply == \E i \in DOMAIN events : events[i].ev = "reply" /\ events[i].what # ""

\* C16: an interaction moves only along Idle, AwaitingSelection, Selected,
\* Enriching, Done, with NotFound and NoSelection terminal: an enrichment call is
\* issued only after a selection was decoded and its id found in the current
\* Directory, the two terminal outcomes issue no call, and an enrichment run in
\* which every backend call and every send has returned ends in Done (stated
\* on the runs that have ended: none ends otherwise than by returning).
C16_InteractionPhases ==
    /\ \A cap \in Capabilities :
          Issued(cap) =>
              /\ handler = "client"
              /\ Truthy(selected_id)
              /\ selected_client \in Range(CLIENTS)
              /\ selected_client.client_id = selected_id
    /\ RepliedWith("none", {"client_not_found", "no_selection"}) =>
          (pc = "done" /\ Len(events) = 1)
    /\ (Enriching /\ Ended) => pc = "done"

\* C17: every event a handler claims (a search text, a reply to a client or
\* favourites form, a reply to a trades form) ends with at least one reply the
\* user can see and with no exception leaving the handler, whatever the backends
\* answer and whatever the payload is.
C17_AlwaysAReply ==
    (handler \in {"search", "client", "trade"} /\ Ended) =>
        (VisibleReply /\ pc # "raised")

\* the answer of a backend as the contract classifies it
AnswerOutcome(resp) ==
    IF resp.kind = "http" /\ resp.status = 200 /\ resp.body.json # "invalid" THEN "Present"
    ELSE IF resp.kind = "http" /\ resp.status = 404 THEN "Empty"
    ELSE "Unavailable"

\* what the function of a capability returns for an answer
ReturnedBy(cap, resp) ==
    CASE cap = "status" -> get_client_status(resp)
      [] cap = "credit" -> get_client_credit_lines(resp)
      [] cap = "trades" -> get_client_trades(resp)

\* C18: get_client_status, get_client_credit_lines and get_client_trades never
\* raise: for every HTTP status, connection failure, timeout or body that cannot
\* be parsed the call returns a value, and that value stands for exactly one of
\* Present, Empty, Unavailable (no answer of another outcome returns it too).
C18_ValueStandsForOneOutcome ==
    \A i \in DOMAIN events :
        (events[i].ev = "return" /\ events[i].cap \in Capabilities) =>
            \A r \in Responses :
                ReturnedBy(events[i].cap, r) = ReturnedBy(events[i].cap, events[i].resp)
                    => AnswerOutcome(r) = AnswerOutcome(events[i].resp)

\* C19: for a trade-document request, a 404 of the backend gives the reply
\* 'contract not found', an unavailable backend gives another, generic failure
\* reply; the two cases never get the same reply.
C19_NotFoundDiffersFromUnavailable ==
    (handler = "trade" /\ pc = "done") =>
        /\ Returned("document", "Empty") =>
              RepliedWith("document", {"contract_not_found"})
        /\ Returned("document", "Unavailable") =>
              (Replied("document") /\ ~RepliedWith("document", {"contract_not_found"}))

\* the parameters of a header value: its parts between semicolons, trimmed
ParametersOf(h) ==
    { strip(SubSeq(h, i, j)) : <<i, j>> \in
        { w \in (1..Len(h)) \X (1..Len(h)) :
            /\ w[1] <= w[2]
            /\ \A k \in w[1]..w[2] : h[k] # ";"
            /\ (w[1] = 1 \/ h[w[1] - 1] = ";")
            /\ (w[2] = Len(h) \/ h[w[2] + 1] = ";") } }

Unquoted(v) ==
    IF Len(v) >= 2 /\ v[1] = "<dq>" /\ v[Len(v)] = "<dq>" THEN SubSeq(v, 2, Len(v) - 1)
    ELSE v

\* the file names a response's Content-Disposition header supplies
DispositionHints(resp) ==
    IF resp.disposition = None THEN {}
    ELSE { Unquoted(SubSeq(p, Len(Str_filename) + 1, Len(p))) :
             p \in { q \in ParametersOf(resp.disposition) : HasPrefix(q, Str_filename) } }

\* C20: when the document is fetched, the attachment's file name is the
\* disposition hint of the response if it carries one, and exactly the trade
\* number followed by ".pdf" if it carries none.
C20_AttachmentFilename ==
    \A i \in DOMAIN events :
        (events[i].ev = "reply" /\ events[i].what = "contract") =>
            LET hints == DispositionHints(events[i - 1].resp)
            IN  IF hints # {} THEN events[i].attachment \in hints
                ELSE events[i].attachment = selected_id \o Str_pdf

\* C21: when the decoded client id is the id of no record of the current
\* Directory (a favourites button rendered before a reload that removed the
\* client, say), the handler sends exactly one 'Client not found' reply, issues
\* no status, credit or trades call, and the interaction is over.
C21_UnknownClient ==
    (handler = "client" /\ Truthy(selected_id)
        /\ \A i \in DOMAIN CLIENTS : CLIENTS[i].client_id # selected_id) =>
            /\ events = <<Reply("none", "client_not_found")>>
            /\ pc = "done"

C21_Witness ==
    /\ handler = "client"
    /\ Len(form_values) = 1
    /\ form_values[1][2] = fav_button_name(Id_9) \/ form_values[1][2] = fav_button_name(Id_2)
    /\ Len(CLIENTS) = 1
    /\ events = <<Reply("none", "client_not_found")>>

\* the search handler claimed the text and ran
Claimed == handler = "search"

\* the reply of the Favourites display: the bar, or nothing when there is none
FavouritesShown == events = <<Reply("none", create_favourites_bar(FAVOURITES))>>

\* the routing of a text t by the three rules, in their order
RoutedByPriority(t) ==
    IF HasPrefix(t, Str_slash) THEN ~Claimed
    ELSE IF HasPrefix(lower(t), Str_find)
         THEN Claimed /\ query = SubSeq(t, Len(Str_find) + 1, Len(t))
    ELSE (t = Str_fav) => (Claimed /\ FavouritesShown /\ query = NoQuery)

\* C22: the classifier of ClientSearchActivity is first-match-wins: a text
\* starting with '/' is never claimed; otherwise a text starting with 'find '
\* (in any case) is routed to Search with exactly the 'find ' trigger removed
\* from the query; otherwise a text equal to 'fav' is routed to the Favourites
\* display and runs no search.
C22_Classifier_RawText == text # NoText => RoutedByPriority(text)

\* C22, read on the text with its leading and trailing whitespace removed
C22_Classifier == text # NoText => RoutedByPriority(strip(text))

C22_Witness ==
    /\ text = <<"F", "i", "n", "d", " ", " ", "1">>
    /\ Claimed
    /\ query = <<" ", "1">>
    /\ matches # <<>>

\* words a classifier would not take for a query; the mention marker
StopWords == { <<"h", "e", "l", "l", "o">>, <<"t", "h", "e">> }
Str_mention == <<"@">>

\* free text that is no command, no 'find ' query and not 'fav', is short, has
\* no stop word and does not begin with a mention
ImplicitQuery(t) ==
    /\ ~HasPrefix(strip(t), Str_slash)
    /\ ~HasPrefix(lower(strip(t)), Str_find)
    /\ lower(strip(t)) # Str_fav
    /\ Cardinality(DOMAIN split(t)) \in 1..4
    /\ \A w \in Range(split(lower(t))) : w \notin StopWords
    /\ ~HasPrefix(strip(t), Str_mention)

\* C23: free text that is not a command, not a 'find ' query and not 'fav', has
\* at most 4 whitespace tokens, contains no stop word and does not begin with a
\* mention marker is classified as an implicit search query and routed to
\* Search with the whole text as query.
C23_ImplicitSearch ==
    (text # NoText /\ ImplicitQuery(text)) => (Claimed /\ query = text)

\* the registered form-reply handlers whose matches() holds of a form id
ClaimedBy(id) ==
    (IF ClientSelectionFormActivity_matches(id) THEN {"client"} ELSE {})
        \cup (IF TradeDocumentActivity_matches(id) THEN {"trade"} ELSE {})

\* C24: whatever the form id of a reply, at most one of the registered
\* form-reply handlers (ClientSelectionFormActivity, TradeDocumentActivity)
\* matches it: no submitted form is processed by two handlers.
C24_OneHandlerPerForm ==
    form_id # NoFormId =>
        /\ Cardinality(ClaimedBy(form_id)) <= 1
        /\ handler \in ClaimedBy(form_id) \cup {"none"}

C24_Witness ==
    /\ form_id = Str_client_selection \o Str_trades_table \o <<"1">>
    /\ handler = "client"
    /\ pc = "done"

\* C25: every rendered list (search-result form, favourites bar, trades
\* table) carries a form id that differs from the form id of every other
\* rendered list, also when two lists are rendered within the same second.
C25_FormIdsDiffer ==
    \A i, j \in DOMAIN rendered : i # j => rendered[i] # rendered[j]

\* the calls issued and not yet returned after the first n events
InFlight(n) ==
    Cardinality({ i \in 1..n : events[i].ev = "call" })
        - Cardinality({ i \in 1..n : events[i].ev = "return" })

\* the call of a capability is at position i; the capability before it in the
\* code has returned before i, and nothing of that capability comes after i
IssuedAfter(i, before) ==
    /\ \E j \in 1..(i - 1) : events[j].ev = "return" /\ events[j].cap = before
    /\ \A j \in DOMAIN events : events[j].cap = before => j < i

\* C26: within one enrichment run no two capability calls are in flight at the
\* same time: the credit call is issued only after the status call has
\* returned and its reply (if any) was sent, the trades call only after the
\* credit call has returned and its reply (if any) was sent.
C26_OneCallInFlight ==
    Enriching =>
        /\ \A n \in 0..Len(events) : InFlight(n) \in {0, 1}
        /\ \A i \in DOMAIN events :
              /\ (events[i].ev = "call" /\ events[i].cap = "credit")
                    => IssuedAfter(i, "status")
              /\ (events[i].ev = "call" /\ events[i].cap = "trades")
                    => IssuedAfter(i, "credit")

C26_Witness ==
    /\ Enriching
    /\ pc = "wait_trades"
    /\ Replied("status") /\ Replied("credit")
    /\ InFlight(Len(events)) = 1

\* C27: when the file holds a malformed row (a column is missing), the load
\* skips only that row: it is not aborted (it returns True) and every
\* well-formed row before and after the malformed one is in CLIENTS.
C27_MalformedRowSkipped ==
    [][ \A csv \in LoadableFiles :
            (Load(csv) /\ csv.exists) =>
                /\ load_returned' = "True"
                /\ \A i \in DOMAIN csv.rows :
                      RowWellFormed(csv.rows[i])
                          => client_of(csv.rows[i]) \in Range(CLIENTS') ]_vars

\* the deliveries that got past the duplicate test of line 52
Processing(message_id) ==
    { d \in DOMAIN deliveries :
        /\ deliveries[d].message_id = message_id
        /\ deliveries[d].pc \notin {"no_attachments", "duplicate"} }

\* the first delivery of a message id
FirstDelivery(message_id) ==
    { d \in DOMAIN deliveries :
        /\ deliveries[d].message_id = message_id
        /\ \A e \in 1..(d - 1) : deliveries[e].message_id # message_id }

\* C28: the attachment listener processes each attachment-bearing message id
\* at most once: however the deliveries of one message interleave, only the
\* first one downloads the attachments (each once) and sends the summary
\* reply (once), and an id added to processed_messages is never removed.
C28_ProcessedOnce ==
    /\ [](\A message_id \in MessageIds :
            /\ Processing(message_id) \subseteq FirstDelivery(message_id)
            /\ downloads[message_id] <= attachments(message_id)
            /\ summaries[message_id] <= 1
            /\ Processing(message_id) # {} => message_id \in processed_messages)
    /\ [][processed_messages \subseteq processed_messages']_vars

C28_Witness ==
    /\ Len(deliveries) = 3
    /\ \A d \in DOMAIN deliveries : deliveries[d].message_id = "m2"
    /\ deliveries[1].pc = "done"
    /\ deliveries[2].pc = "duplicate" /\ deliveries[3].pc = "duplicate"
    /\ downloads["m2"] = 2
    /\ summaries["m2"] = 1

\* a trade-document request with a decoded trade number
DocumentRequest == handler = "trade" /\ Truthy(selected_id)

\* the replies after the acknowledgement
DocumentOutcomes ==
    { i \in DOMAIN events :
        events[i].ev = "reply" /\ events[i].what \in {"contract", "contract_not_found"} }

ScanReaches(a, h) == \A j \in PrefixedNames(form_values, h) : a < j

\* C30: in the client-selection handler an action field with a non-empty value
\* that starts with neither client_ nor fav_ ends the scan at that field: the
\* result is no selection even when a later field name carries a recognised
\* prefix; the trade-document handler keeps scanning past an action field
\* whose value lacks the trade_doc_ prefix and decodes a later trade_doc_
\* field name.
C30_UnrecognisedAction ==
    \A a \in ActionFields(form_values) :
        /\ (handler = "client" /\ Truthy(form_values[a][2])
                /\ ~HasRecognisedPrefix(form_values[a][2], "client")
                /\ ScanReaches(a, "client")) =>
              /\ selected_id = None
              /\ events = <<Reply("none", "no_selection")>>
              /\ pc = "done"
        /\ (handler = "trade"
                /\ ~HasRecognisedPrefix(form_values[a][2], "trade")
                /\ ScanReaches(a, "trade")
                /\ PrefixedNames(form_values, "trade") # {}) =>
              selected_id =
                  StrippedOf(form_values[FirstOf(PrefixedNames(form_values, "trade"))][1],
                             "trade")

C30_Witness ==
    /\ handler = "client"
    /\ form_values = << <<Str_action, Prefix_trade_doc \o Trade_7>>,
                        <<Prefix_fav \o Id_2, <<>>>> >>
    /\ selected_id = None
    /\ pc = "done"

====
